---- MODULE Spec2Model ----
(***************************************************************************)
(* PyGPS (src/main.py): an asyncio agent that reads NMEA sentences from a  *)
(* serial receiver, assembles fixes, filters stationary fixes, appends     *)
(* every delivered fix to a per-day CSV file and uploads it over HTTP.     *)
(*                                                                         *)
(* Two groups of state:                                                    *)
(*   - the delivery pipeline (upload_queue, the CSV store, the drain loop  *)
(*     handle_gps_loop, the upload calls wrapped by aretry, the startup    *)
(*     replay upload_store_gps_data, the network monitor);                 *)
(*   - the acquisition side (get_gps_data's accumulator and the stop       *)
(*     filter of get_gps_loop).                                            *)
(* In the pipeline a fix is identified by a positive integer (the order in *)
(* which get_gps_loop enqueued it); on the acquisition side a fix is the   *)
(* dict of five fields built by get_gps_data.                              *)
(***************************************************************************)
EXTENDS Integers, Sequences, FiniteSets, TLC

VARIABLES
    \* ---- delivery pipeline ----
    is_network_available, \* main.py:49   "None" | "True" | "False"
    upload_queue,         \* main.py:50   asyncio.Queue, as a sequence
    produced,             \* number of fixes get_gps_loop has enqueued
    store,                \* rows of the current-day CSV file, in file order
    file_exists,          \* whether the current-day CSV file exists
    h_pc,                 \* handle_gps_loop: where the coroutine is suspended
    queue_size,           \* handle_gps_loop: local queue_size (line 392)
    h_left,               \* handle_gps_loop: iterations left of `for _ in range(queue_size)`
    lst,                  \* handle_gps_loop: local lst, a reference into lists (0: unbound)
    data,                 \* handle_gps_loop: local data (0: unbound)
    lists,                \* the list objects allocated so far, by reference
    tasks,                \* the upload_gps_data calls in progress
    r_pc,                 \* upload_store_gps_data: where the coroutine is
    datas,                \* upload_store_gps_data: local datas
    r_idx,                \* upload_store_gps_data: position of the for loop in datas
    r_lst,                \* upload_store_gps_data: local lst, a reference into lists
    last_call,            \* how the upload call that returned last ended
    delivered,            \* fixes the collector has acknowledged with a 2xx
    restarts,             \* number of process restarts so far
    last_probe,           \* how the last completed probe of the monitor ended
    submitted,            \* rows this run's replay has passed to upload_gps_data
    \* ---- acquisition ----
    gps_data,             \* get_gps_data: local data (the accumulator)
    covered,              \* fields some sentence of the current call has carried
    ignore,               \* get_gps_loop: local ignore
    stopping,             \* get_gps_loop: local stopping
    stop_timestamp,       \* get_gps_loop: local stop_timestamp
    DISABLE_IGNORE_STOP,  \* main.py:34   configuration flag
    shadow,               \* the filter state of the same run with the flag unset
    last_eval,            \* the last fix get_gps_loop evaluated, and its verdict
    error_count,          \* main.py:47   global error_count
    faults,               \* faults get_gps_data has met since the process started
    a_pc,                 \* main(): "run", "raised" (an exception left it), "ended"
    ser,                  \* main.py:45   global ser: "open" or "closed"
    \* ---- line reassembler ----
    buf,                  \* ReadLine.buf
    rl_pc,                \* readline: "idle" between calls, "loop" inside the while
    bytes_read,           \* every byte self.s.read has returned so far, in order
    returned              \* the lines readline has returned so far, in order

pvars == <<is_network_available, upload_queue, produced, store, file_exists,
           h_pc, queue_size, h_left, lst, data, lists, tasks,
           r_pc, datas, r_idx, r_lst, last_call, delivered, restarts,
           last_probe, submitted>>
lvars == <<buf, rl_pc, bytes_read, returned>>
avars == <<gps_data, covered, ignore, stopping, stop_timestamp,
           DISABLE_IGNORE_STOP, shadow, last_eval, error_count, faults, a_pc, ser,
           lvars>>
vars == <<pvars, avars>>

Range(s) == {s[i] : i \in 1..Len(s)}

----------------------------------------------------------------------------
(* Bounds of the model *)
MaxFix == 1          \* fixes enqueued in one explored run of Spec
MaxBacklog == 12     \* fixes enqueued in one explored run of BatchSpec
MaxPrior == 2        \* rows the current-day file may hold at the first start
MaxRestart == 2      \* process restarts explored
NUM_PER_UPLOAD == 2  \* main.py:38, configuration (rows per replay batch)

(* Program constants *)
BatchThreshold == 10 \* main.py:394  `if queue_size >= 10`
times == 3           \* main.py:272  @aretry(times=3, interval=0.5)

----------------------------------------------------------------------------
(* Python truthiness of is_network_available and the gate of line 276:     *)
(*   if not is_network_available and is_network_available is not None      *)
Falsy(n) == n \in {"None", "False"}

(* Variant: the gate without its `is not None` half. *)
NetworkGateMut(n) == Falsy(n)

NetworkGate(n) == Falsy(n) /\ n # "None"

(* save_gps_data appends one row to the current-day file (lines 319-322).  *)
save_gps_data(rows, d) == Append(rows, d)

(* A row of the file is the identity of the fix it was written from; a    *)
(* row that is not positive stands for a line int() or float() of lines    *)
(* 348-352 cannot convert, or one with fewer than five fields.             *)
WellFormed(row) == row > 0

(* read_gps_data (lines 339-356): None when the file does not exist, else  *)
(* every row of the file, in file order. The conversions of lines 348-352  *)
(* are not inside a try: a malformed line raises ValueError or IndexError  *)
(* out of read_gps_data and no list is returned.                           *)
(* The result is a record: none is TRUE for Python's None, raised for an   *)
(* exception.                                                              *)
None == [none |-> TRUE, rows |-> <<>>, raised |-> FALSE]

read_gps_data(exists, rows) ==
    IF ~exists THEN None
    ELSE IF \E i \in 1..Len(rows) : ~WellFormed(rows[i])
         THEN [none |-> FALSE, rows |-> <<>>, raised |-> TRUE]
         ELSE [none |-> FALSE, rows |-> rows, raised |-> FALSE]

(* What json=data serialises when the request is made: a dict is sent as   *)
(* it is, a list is read through its reference at that moment.             *)
Payload(t) == IF t.kind = "dict" THEN t.arg ELSE lists[t.ref]

(* A fresh upload_gps_data call. arg records the value of the argument at  *)
(* the time of the call; ref is the list object it aliases (0 for a dict). *)
NewTask(src, kind, arg, ref) ==
    [src |-> src, kind |-> kind, arg |-> arg, ref |-> ref,
     i |-> 0, requests |-> 0, phase |-> "ready", sent |-> <<>>, snap |-> "None"]

(* last_call: how the last returned call ended (result), how many requests *)
(* it had made, and the value of is_network_available its last try read.   *)
NoCall == [result |-> "none", requests |-> 0, snap |-> "None"]

----------------------------------------------------------------------------
(* check_network_task (lines 165-177): one probe. Any response to the GET  *)
(* (line 169 returns, whatever the status code) sets True; an exception    *)
(* (timeout, connection refused) sets False.                               *)
ProbeOutcomes == {"2xx", "non2xx", "fault"}

check_network_task(outcome) ==
    /\ is_network_available' = IF outcome = "fault" THEN "False" ELSE "True"
    /\ last_probe' = outcome
    /\ UNCHANGED <<upload_queue, produced, store, file_exists, h_pc, queue_size,
                   h_left, lst, data, lists, tasks, r_pc, datas, r_idx, r_lst,
                   last_call, delivered, restarts, submitted>>
    /\ UNCHANGED avars

(* The identity of the n-th fix get_gps_loop enqueues; the rows earlier    *)
(* runs left in the file are 1..MaxPrior at most.                          *)
FixId(n) == MaxPrior + n

(* get_gps_loop, line 385: a fix the filter delivers is put on the queue.  *)
(* The queue is unbounded, so put never blocks; `bound` caps the run. The  *)
(* loops start after the first step of the replay task (lines 414-419).    *)
Put(bound) ==
    /\ r_pc # "init"
    /\ produced < bound
    /\ produced' = produced + 1
    /\ upload_queue' = Append(upload_queue, FixId(produced + 1))
    /\ UNCHANGED <<is_network_available, store, file_exists, h_pc, queue_size,
                   h_left, lst, data, lists, tasks, r_pc, datas, r_idx, r_lst,
                   last_call, delivered, restarts,
                   last_probe, submitted>>
    /\ UNCHANGED avars

----------------------------------------------------------------------------
(* handle_gps_loop (lines 390-410).                                        *)

(* Lines 392-396: read qsize and choose the batch or the single path.      *)
HandleCheck ==
    /\ h_pc = "top"
    /\ queue_size' = Len(upload_queue)
    /\ IF Len(upload_queue) >= BatchThreshold
         THEN /\ lists' = Append(lists, <<>>)          \* lst = []
              /\ lst' = Len(lists) + 1
              /\ h_left' = Len(upload_queue)
              /\ h_pc' = "batch_get"
         ELSE /\ h_pc' = "single_get"
              /\ UNCHANGED <<lists, lst, h_left>>
    /\ UNCHANGED <<is_network_available, upload_queue, produced, store,
                   file_exists, data, tasks, r_pc, datas, r_idx, r_lst,
                   last_call, delivered, restarts,
                   last_probe, submitted>>
    /\ UNCHANGED avars

(* Lines 398-399: data = await upload_queue.get(); lst.append(data); the   *)
(* coroutine then suspends in save_gps_data.                               *)
BatchGet ==
    /\ h_pc = "batch_get"
    /\ upload_queue # <<>>
    /\ data' = Head(upload_queue)
    /\ upload_queue' = Tail(upload_queue)
    /\ lists' = [lists EXCEPT ![lst] = Append(@, Head(upload_queue))]
    /\ h_pc' = "batch_save"
    /\ UNCHANGED <<is_network_available, produced, store, file_exists, queue_size,
                   h_left, lst, tasks, r_pc, datas, r_idx, r_lst, last_call,
                   delivered, restarts,
                   last_probe, submitted>>
    /\ UNCHANGED avars

(* Variant: line 400 saves the whole of lst on every iteration. *)
BatchSaveMut ==
    /\ h_pc = "batch_save"
    /\ store' = store \o lists[lst]
    /\ file_exists' = TRUE
    /\ h_left' = h_left - 1
    /\ h_pc' = IF h_left - 1 > 0 THEN "batch_get" ELSE "batch_dispatch"
    /\ UNCHANGED <<is_network_available, upload_queue, produced, queue_size, lst,
                   data, lists, tasks, r_pc, datas, r_idx, r_lst, last_call,
                   delivered, restarts,
                   last_probe, submitted>>
    /\ UNCHANGED avars

(* Lines 400-401: the append of save_gps_data completes; task_done; next   *)
(* iteration of the for loop, or out of it.                                *)
BatchSave ==
    /\ h_pc = "batch_save"
    /\ store' = save_gps_data(store, data)
    /\ file_exists' = TRUE
    /\ h_left' = h_left - 1
    /\ h_pc' = IF h_left - 1 > 0 THEN "batch_get" ELSE "batch_dispatch"
    /\ UNCHANGED <<is_network_available, upload_queue, produced, queue_size, lst,
                   data, lists, tasks, r_pc, datas, r_idx, r_lst, last_call,
                   delivered, restarts,
                   last_probe, submitted>>
    /\ UNCHANGED avars

(* Lines 402-404: asyncio.ensure_future(upload_gps_data(lst)) schedules    *)
(* the call with a reference to lst; lst.clear() runs before the           *)
(* coroutine suspends, so before the scheduled call takes its first step.  *)
BatchDispatch ==
    /\ h_pc = "batch_dispatch"
    /\ tasks' = tasks \cup {NewTask("live", "list", lists[lst], lst)}
    /\ lists' = [lists EXCEPT ![lst] = <<>>]           \* lst.clear()
    /\ h_pc' = "top"
    /\ UNCHANGED <<is_network_available, upload_queue, produced, store,
                   file_exists, queue_size, h_left, lst, data, r_pc, datas,
                   r_idx, r_lst, last_call, delivered, restarts,
                   last_probe, submitted>>
    /\ UNCHANGED avars

(* Variant: the upload is scheduled together with the save, as the gather *)
(* of the commented line 407 would.                                       *)
SingleGetMut ==
    /\ h_pc = "single_get"
    /\ upload_queue # <<>>
    /\ data' = Head(upload_queue)
    /\ upload_queue' = Tail(upload_queue)
    /\ tasks' = tasks \cup {NewTask("live", "dict", <<Head(upload_queue)>>, 0)}
    /\ h_pc' = "single_save"
    /\ UNCHANGED <<is_network_available, produced, store, file_exists, queue_size,
                   h_left, lst, lists, r_pc, datas, r_idx, r_lst,
                   last_call, delivered, restarts,
                   last_probe, submitted>>
    /\ UNCHANGED avars

(* Line 406: data = await upload_queue.get() (suspends while the queue is  *)
(* empty); the coroutine then suspends in save_gps_data.                   *)
SingleGet ==
    /\ h_pc = "single_get"
    /\ upload_queue # <<>>
    /\ data' = Head(upload_queue)
    /\ upload_queue' = Tail(upload_queue)
    /\ h_pc' = "single_save"
    /\ UNCHANGED <<is_network_available, produced, store, file_exists, queue_size,
                   h_left, lst, lists, tasks, r_pc, datas, r_idx, r_lst,
                   last_call, delivered, restarts,
                   last_probe, submitted>>
    /\ UNCHANGED avars

(* Variant: the drain loop waits for the uploads it has scheduled. *)
SingleSaveMut ==
    /\ h_pc = "single_save"
    /\ tasks = {}
    /\ store' = save_gps_data(store, data)
    /\ file_exists' = TRUE
    /\ tasks' = tasks \cup {NewTask("live", "dict", <<data>>, 0)}
    /\ h_pc' = "top"
    /\ UNCHANGED <<is_network_available, upload_queue, produced, queue_size,
                   h_left, lst, data, lists, r_pc, datas, r_idx, r_lst,
                   last_call, delivered, restarts,
                   last_probe, submitted>>
    /\ UNCHANGED avars

(* Lines 408-410: the append completes, then the upload of the same fix is *)
(* scheduled and the queue item is marked done.                            *)
SingleSave ==
    /\ h_pc = "single_save"
    /\ store' = save_gps_data(store, data)
    /\ file_exists' = TRUE
    /\ tasks' = tasks \cup {NewTask("live", "dict", <<data>>, 0)}
    /\ h_pc' = "top"
    /\ UNCHANGED <<is_network_available, upload_queue, produced, queue_size,
                   h_left, lst, data, lists, r_pc, datas, r_idx, r_lst,
                   last_call, delivered, restarts,
                   last_probe, submitted>>
    /\ UNCHANGED avars

----------------------------------------------------------------------------
(* upload_gps_data under aretry (lines 139-155 and 272-287). A call is a   *)
(* record of tasks; i is the index of the for loop of the wrapper.         *)

(* One try of the wrapper, up to its first suspension: the gate of line    *)
(* 276 reads is_network_available once; when it shuts, func returns None,  *)
(* and so does the wrapper (line 145); otherwise the POST of line 281 or   *)
(* 285 is made with the payload as it is now.                              *)
UploadAttempt(t) ==
    /\ t \in tasks
    /\ t.phase = "ready"
    /\ IF NetworkGate(is_network_available)
         THEN /\ tasks' = tasks \ {t}
              /\ last_call' = [result |-> "skipped", requests |-> t.requests,
                               snap |-> is_network_available]
         ELSE /\ tasks' = (tasks \ {t}) \cup
                    {[t EXCEPT !.phase = "waiting",
                               !.sent = Payload(t),
                               !.snap = is_network_available,
                               !.requests = @ + 1]}
              /\ UNCHANGED last_call
    /\ UNCHANGED <<is_network_available, upload_queue, produced, store,
                   file_exists, h_pc, queue_size, h_left, lst, data, lists,
                   r_pc, datas, r_idx, r_lst, delivered, restarts,
                   last_probe, submitted>>
    /\ UNCHANGED avars

(* What the wrapper does with the result of the POST. A response, whatever *)
(* its status code, is printed and closed and the call returns (lines      *)
(* 281-283, 285-287: the status code is never tested). An exception is     *)
(* caught (lines 146-149), the wrapper sleeps and goes to the next i; the  *)
(* for loop ends after `times` tries and the wrapper returns None.         *)
Outcomes == {"2xx", "non2xx", "fault"}

RetryAgain(i) == i + 1 < times

UploadResponse(t, outcome) ==
    /\ t \in tasks
    /\ t.phase = "waiting"
    /\ IF outcome = "fault" /\ RetryAgain(t.i)
         THEN /\ tasks' = (tasks \ {t}) \cup
                    {[t EXCEPT !.phase = "ready", !.i = @ + 1,
                               !.sent = <<>>, !.snap = "None"]}
              /\ UNCHANGED last_call
         ELSE /\ tasks' = tasks \ {t}
              /\ last_call' = [result |-> IF outcome = "fault" THEN "exhausted"
                                          ELSE outcome,
                               requests |-> t.requests, snap |-> t.snap]
    /\ delivered' = IF outcome = "2xx" THEN delivered \cup Range(t.sent)
                    ELSE delivered
    /\ UNCHANGED <<is_network_available, upload_queue, produced, store,
                   file_exists, h_pc, queue_size, h_left, lst, data, lists,
                   r_pc, datas, r_idx, r_lst, restarts,
                   last_probe, submitted>>
    /\ UNCHANGED avars

----------------------------------------------------------------------------
(* upload_store_gps_data (lines 290-310), scheduled once by main (415).    *)

(* Line 292 up to the first suspension of read_gps_data: the exists test   *)
(* of line 339 and the open of line 343. main schedules the replay before  *)
(* the loops (lines 414-419), so this step runs before the first step of   *)
(* get_gps_loop and of handle_gps_loop. A missing file returns None and    *)
(* the replay ends at line 295.                                            *)
ReplayOpen ==
    /\ r_pc = "init"
    /\ IF read_gps_data(file_exists, store).none
         THEN /\ r_pc' = "done"
              /\ datas' = None
         ELSE /\ r_pc' = "read"
              /\ UNCHANGED datas
    /\ UNCHANGED <<is_network_available, upload_queue, produced, store,
                   file_exists, h_pc, queue_size, h_left, lst, data, lists,
                   tasks, r_idx, r_lst, last_call, delivered, restarts,
                   last_probe, submitted>>
    /\ UNCHANGED avars

(* Lines 344-356 and 292-294: readlines completes in the executor thread,  *)
(* at any time with respect to the appends of the drain loop, and returns  *)
(* the rows the file holds by then; an exception of a conversion ends the  *)
(* replay task, since nothing catches it.                                  *)
ReplayRead ==
    /\ r_pc = "read"
    /\ datas' = read_gps_data(file_exists, store)
    /\ IF read_gps_data(file_exists, store).raised
         THEN /\ r_pc' = "failed"
              /\ UNCHANGED <<lists, r_lst, r_idx>>
         ELSE /\ r_pc' = "loop"
              /\ lists' = Append(lists, <<>>)          \* lst = []
              /\ r_lst' = Len(lists) + 1
              /\ r_idx' = 1
    /\ UNCHANGED <<is_network_available, upload_queue, produced, store,
                   file_exists, h_pc, queue_size, h_left, lst, data, tasks,
                   last_call, delivered, restarts,
                   last_probe, submitted>>
    /\ UNCHANGED avars

(* Lines 296-307, from the current position of the for loop to the next    *)
(* await: rows are appended to lst until it holds NUM_PER_UPLOAD of them   *)
(* (line 301) or datas is exhausted; then lst, if not empty, is uploaded   *)
(* and the coroutine waits for that call to return.                        *)
(* Variant: the remaining rows are not uploaded (lines 306-308 missing). *)
ChunkEndMut(rows, from) ==
    IF from + NUM_PER_UPLOAD - 1 <= Len(rows) THEN from + NUM_PER_UPLOAD - 1
    ELSE from - 1

ChunkEnd(rows, from) ==
    IF from + NUM_PER_UPLOAD - 1 <= Len(rows) THEN from + NUM_PER_UPLOAD - 1
    ELSE Len(rows)

ReplayFill ==
    /\ r_pc = "loop"
    /\ LET last == ChunkEnd(datas.rows, r_idx)
           chunk == SubSeq(datas.rows, r_idx, last)
           full == Len(chunk) >= NUM_PER_UPLOAD
       IN /\ r_idx' = last + 1
          /\ lists' = [lists EXCEPT ![r_lst] = @ \o chunk]
          /\ IF chunk = <<>>
               THEN /\ r_pc' = "done"
                    /\ UNCHANGED <<tasks, submitted>>
               ELSE /\ r_pc' = IF full THEN "upload" ELSE "final_upload"
                    /\ tasks' = tasks \cup {NewTask("replay", "list", chunk, r_lst)}
                    /\ submitted' = submitted \o chunk
    /\ UNCHANGED <<is_network_available, upload_queue, produced, store,
                   file_exists, h_pc, queue_size, h_left, lst, data, datas,
                   r_lst, last_call, delivered, restarts,
                   last_probe>>
    /\ UNCHANGED avars

(* Lines 302-303 and 307-308: the awaited call has returned; lst.clear().  *)
ReplayResume ==
    /\ r_pc \in {"upload", "final_upload"}
    /\ \A t \in tasks : t.src # "replay"
    /\ lists' = [lists EXCEPT ![r_lst] = <<>>]
    /\ r_pc' = IF r_pc = "upload" THEN "loop" ELSE "done"
    /\ UNCHANGED <<is_network_available, upload_queue, produced, store,
                   file_exists, h_pc, queue_size, h_left, lst, data, tasks,
                   datas, r_idx, r_lst, last_call, delivered, restarts,
                   last_probe, submitted>>
    /\ UNCHANGED avars

----------------------------------------------------------------------------
(* The process ends (crash or kill) and is started again: module level     *)
(* state is re-created (lines 45-50), main schedules the monitor and the   *)
(* replay again (414-415) and the loops start over. The file and what the  *)
(* collector has received stay.                                            *)
Restart ==
    /\ restarts < MaxRestart
    /\ restarts' = restarts + 1
    /\ is_network_available' = "None"
    /\ upload_queue' = <<>>
    /\ h_pc' = "top"
    /\ queue_size' = 0
    /\ h_left' = 0
    /\ lst' = 0
    /\ data' = 0
    /\ lists' = <<>>
    /\ tasks' = {}
    /\ r_pc' = "init"
    /\ datas' = None
    /\ r_idx' = 0
    /\ r_lst' = 0
    /\ last_call' = NoCall
    /\ last_probe' = "none"
    /\ submitted' = <<>>
    /\ UNCHANGED <<produced, store, file_exists, delivered>>
    /\ UNCHANGED avars

----------------------------------------------------------------------------
(* Acquisition: get_gps_data (lines 196-269) and get_gps_loop (359-387).   *)
(* An optional value is a sequence: <<>> is Python's None, <<v>> is v.     *)
(* Latitude and longitude are in units of 1e-8 degree, speeds in tenths of *)
(* km/h, altitudes in metres, times in seconds.                            *)
NoneV == <<>>
Opt(S) == {NoneV} \cup {<<v>> : v \in S}

TRIGGER_STOP_TIME == 20   \* main.py:35  seconds
TRIGGER_STOP_SPEED == 5   \* main.py:36  0.5 km/h, in tenths of km/h
max_error_count == 5      \* main.py:48

Fields == {"latitude", "longitude", "altitude", "speed", "GPSTimestamp"}

LatVals == {14}
LonVals == {-26}
AltVals == {10}
SpeedVals == {4, 5}
TimeVals == {0, 20, 21}
DateVals == {1}

(* What pynmea2.parse returns, as far as lines 245-260 look at it. A       *)
(* position is carried with both coordinates or with none.                 *)
Sentences ==
    [type : {"GGA"}, altitude : Opt(AltVals)]
    \cup {[type |-> "RMC", latitude |-> p[1], longitude |-> p[2],
           timestamp |-> t, datestamp |-> d] :
            p \in {<<NoneV, NoneV>>} \cup {<< <<a>>, <<b>> >> : a \in LatVals, b \in LonVals},
            t \in Opt(TimeVals), d \in Opt(DateVals)}
    \cup [type : {"VTG"}, spd_over_grnd_kmph : Opt(SpeedVals)]
    \cup [type : {"GSV"}]

(* round(x, 7) of line 251, on a value in units of 1e-8 degree (no value   *)
(* of the model is a tie).                                                 *)
Round7(x) == IF x >= 0 THEN ((x + 5) \div 10) * 10
             ELSE -(((-x + 5) \div 10) * 10)

(* get_timestamp (lines 134-135): date in days, time in seconds of the day *)
get_timestamp(time, date) == date * 86400 + time

(* dict_is_none (lines 118-122) *)
(* Variant: a test that overlooks one key. *)
dict_is_noneMut(d) == \E k \in Fields \ {"altitude"} : d[k] = NoneV
dict_is_none(d) == \E k \in DOMAIN d : d[k] = NoneV

(* Line 209: the accumulator a call of get_gps_data starts with. *)
EmptyData == [k \in Fields |-> NoneV]

(* Lines 245-264: what one decoded sentence does to the accumulator. *)
UpdateData(d, msg) ==
    IF msg.type = "GGA" THEN [d EXCEPT !["altitude"] = msg.altitude]
    ELSE IF msg.type = "RMC" THEN
        LET d1 == IF msg.latitude # NoneV /\ msg.longitude # NoneV
                  THEN [d EXCEPT !["latitude"] = <<Round7(msg.latitude[1])>>,
                                 !["longitude"] = <<Round7(msg.longitude[1])>>]
                  ELSE d
        IN IF msg.timestamp # NoneV /\ msg.datestamp # NoneV
           THEN [d1 EXCEPT !["GPSTimestamp"] =
                    <<get_timestamp(msg.timestamp[1], msg.datestamp[1])>>]
           ELSE d1
    ELSE IF msg.type = "VTG" THEN [d EXCEPT !["speed"] = msg.spd_over_grnd_kmph]
    ELSE d

(* The fields of a fix a decoded sentence carries (section 6 of the        *)
(* specification: a fragment carries position, altitude, speed or none;    *)
(* the timestamp exists when both the time and the date are present).      *)
Carried(msg) ==
    IF msg.type = "GGA" THEN (IF msg.altitude # NoneV THEN {"altitude"} ELSE {})
    ELSE IF msg.type = "RMC" THEN
        (IF msg.latitude # NoneV /\ msg.longitude # NoneV
         THEN {"latitude", "longitude"} ELSE {})
        \cup (IF msg.timestamp # NoneV /\ msg.datestamp # NoneV
              THEN {"GPSTimestamp"} ELSE {})
    ELSE IF msg.type = "VTG" THEN
        (IF msg.spd_over_grnd_kmph # NoneV THEN {"speed"} ELSE {})
    ELSE {}

(* One iteration of the while loop of get_gps_data (lines 216-264) on a    *)
(* line that decodes.                                                      *)
Sentence(msg) ==
    /\ a_pc = "run"
    /\ dict_is_none(gps_data)
    /\ gps_data' = UpdateData(gps_data, msg)
    /\ covered' = covered \cup Carried(msg)
    /\ UNCHANGED <<ignore, stopping, stop_timestamp, DISABLE_IGNORE_STOP,
                   shadow, last_eval, error_count, faults, a_pc, ser>>
    /\ UNCHANGED lvars
    /\ UNCHANGED pvars

(* raise_error (lines 126-130): the counter after the call, and whether    *)
(* the exception is raised again.                                          *)
(* Variant: the comparison of line 129 as >=. *)
raise_errorMut(count) ==
    [error_count |-> count + 1, raised |-> count + 1 >= max_error_count]

raise_error(count) ==
    [error_count |-> count + 1, raised |-> count + 1 > max_error_count]

(* One iteration of the while loop of get_gps_data on a line that does not *)
(* decode or a read that fails (lines 221-243): each except branch calls   *)
(* raise_error, then sleeps one second and continues with the accumulator  *)
(* as it was. An exception raise_error raises leaves get_gps_data,         *)
(* get_gps_loop, the gather of line 419 and main.                          *)
SentenceFault ==
    /\ a_pc = "run"
    /\ dict_is_none(gps_data)
    /\ faults' = faults + 1
    /\ error_count' = raise_error(error_count).error_count
    /\ a_pc' = IF raise_error(error_count).raised THEN "raised" ELSE "run"
    /\ UNCHANGED <<gps_data, covered, ignore, stopping, stop_timestamp,
                   DISABLE_IGNORE_STOP, shadow, last_eval, ser>>
    /\ UNCHANGED lvars
    /\ UNCHANGED pvars

(* Lines 426-428: run_until_complete(main()) has ended. When main returned *)
(* the next statement closes the port; when an exception left main,        *)
(* run_until_complete raises it again, lines 427-428 are not executed and  *)
(* the interpreter exits: whether the finalizer of the Serial object runs  *)
(* during that exit is not determined by the program.                      *)
ProcessExit ==
    /\ a_pc \in {"returned", "raised"}
    /\ a_pc' = "ended"
    /\ ser' \in (IF a_pc = "returned" THEN {"closed"} ELSE {ser, "closed"})
    /\ UNCHANGED <<gps_data, covered, ignore, stopping, stop_timestamp,
                   DISABLE_IGNORE_STOP, shadow, last_eval, error_count, faults>>
    /\ UNCHANGED lvars
    /\ UNCHANGED pvars

(* The body of the loop of get_gps_loop after get_gps_data has returned    *)
(* (lines 367-385), as a function of the locals, the fix and the flag.     *)
(* Variant: the flag short-circuits the whole filter. *)
FilterStepMut(st, fix, flag) ==
    LET slow == fix["speed"][1] < TRIGGER_STOP_SPEED
        ts == fix["GPSTimestamp"][1]
        st1 == IF flag THEN st
               ELSE IF slow THEN
                  IF ~st.stopping
                  THEN [st EXCEPT !.stop_timestamp = ts, !.stopping = TRUE]
                  ELSE IF ts - st.stop_timestamp > TRIGGER_STOP_TIME
                       THEN [st EXCEPT !.ignore = TRUE]
                       ELSE st
               ELSE [st EXCEPT !.stopping = FALSE, !.ignore = FALSE]
    IN [state |-> st1, put |-> (~st1.ignore) \/ flag]

(* Variant: line 382 (ignore = False) is missing. *)
FilterResumeMut(st, fix, flag) ==
    LET slow == fix["speed"][1] < TRIGGER_STOP_SPEED
        ts == fix["GPSTimestamp"][1]
        st1 == IF slow THEN
                  IF ~st.stopping
                  THEN [st EXCEPT !.stop_timestamp = ts, !.stopping = TRUE]
                  ELSE IF ts - st.stop_timestamp > TRIGGER_STOP_TIME
                       THEN [st EXCEPT !.ignore = TRUE]
                       ELSE st
               ELSE [st EXCEPT !.stopping = FALSE]
    IN [state |-> st1, put |-> (~st1.ignore) \/ flag]

(* Variant: the comparison of line 376 as >=. *)
FilterBoundaryMut(st, fix, flag) ==
    LET slow == fix["speed"][1] < TRIGGER_STOP_SPEED
        ts == fix["GPSTimestamp"][1]
        st1 == IF slow THEN
                  IF ~st.stopping
                  THEN [st EXCEPT !.stop_timestamp = ts, !.stopping = TRUE]
                  ELSE IF ts - st.stop_timestamp >= TRIGGER_STOP_TIME
                       THEN [st EXCEPT !.ignore = TRUE]
                       ELSE st
               ELSE [st EXCEPT !.stopping = FALSE, !.ignore = FALSE]
    IN [state |-> st1, put |-> (~st1.ignore) \/ flag]

FilterStep(st, fix, flag) ==
    LET slow == fix["speed"][1] < TRIGGER_STOP_SPEED           \* line 367
        ts == fix["GPSTimestamp"][1]
        st1 == IF slow THEN
                  IF ~st.stopping                               \* line 368
                  THEN [st EXCEPT !.stop_timestamp = ts, !.stopping = TRUE]
                  ELSE IF ts - st.stop_timestamp > TRIGGER_STOP_TIME   \* 376
                       THEN [st EXCEPT !.ignore = TRUE]
                       ELSE st
               ELSE [st EXCEPT !.stopping = FALSE, !.ignore = FALSE]  \* 381-382
    IN [state |-> st1, put |-> (~st1.ignore) \/ flag]          \* line 384

FilterState == [ignore |-> ignore, stopping |-> stopping,
                stop_timestamp |-> stop_timestamp]

(* get_gps_loop, lines 364-387: get_gps_data has returned gps_data; the    *)
(* filter runs, the fix is put on the queue unless it is ignored, and the  *)
(* next call of get_gps_data starts with an empty accumulator.             *)
get_gps_loop(bound) ==
    /\ a_pc = "run"
    /\ ~dict_is_none(gps_data)
    /\ produced < bound
    /\ LET r == FilterStep(FilterState, gps_data, DISABLE_IGNORE_STOP)
           sh == FilterStep(shadow, gps_data, FALSE)
       IN /\ ignore' = r.state.ignore
          /\ stopping' = r.state.stopping
          /\ stop_timestamp' = r.state.stop_timestamp
          /\ shadow' = sh.state
          /\ last_eval' = [valid |-> TRUE, fix |-> gps_data,
                           pre_ignore |-> ignore, pre_stopping |-> stopping,
                           pre_stop_timestamp |-> stop_timestamp,
                           put |-> r.put]
          /\ IF r.put
               THEN /\ upload_queue' = Append(upload_queue, gps_data)
                    /\ produced' = produced + 1
               ELSE UNCHANGED <<upload_queue, produced>>
    /\ gps_data' = EmptyData
    /\ covered' = {}
    /\ UNCHANGED <<DISABLE_IGNORE_STOP, error_count, faults, a_pc, ser>>
    /\ UNCHANGED lvars
    /\ UNCHANGED <<is_network_available, store, file_exists, h_pc, queue_size,
                   h_left, lst, data, lists, tasks, r_pc, datas, r_idx, r_lst,
                   last_call, delivered, restarts,
                   last_probe, submitted>>

----------------------------------------------------------------------------
(* ReadLine (lines 64-89). A byte is its code; a line ends with NL.        *)
NL == 10                  \* main.py:71  b"\n"
Bytes == {NL, 65}

MaxChunk == 3        \* bytes one self.s.read returns at most
MaxBytes == 5        \* bytes read from the port in one explored run

Chunks == UNION {[1..n -> Bytes] : n \in 0..MaxChunk}

(* bytes.find(b"\n"): the index (from 1) of the first NL, 0 when there is *)
(* none (Python: from 0, and -1).                                          *)
find(b) ==
    IF \E i \in 1..Len(b) : b[i] = NL
    THEN CHOOSE i \in 1..Len(b) : b[i] = NL /\ \A j \in 1..(i - 1) : b[j] # NL
    ELSE 0

(* Lines 70-75: a terminator is already buffered; the prefix up to it is   *)
(* returned and the rest stays in buf.                                     *)
readline_buffered ==
    /\ rl_pc = "idle"
    /\ find(buf) > 0
    /\ returned' = Append(returned, SubSeq(buf, 1, find(buf)))
    /\ buf' = SubSeq(buf, find(buf) + 1, Len(buf))
    /\ UNCHANGED <<rl_pc, bytes_read>>
    /\ UNCHANGED <<gps_data, covered, ignore, stopping, stop_timestamp,
                   DISABLE_IGNORE_STOP, shadow, last_eval, error_count, faults,
                   a_pc, ser>>
    /\ UNCHANGED pvars

(* Variant: line 86 extends buf with the remainder instead of replacing    *)
(* its content.                                                            *)
readline_readMut(chunk) ==
    /\ rl_pc = "loop" \/ (rl_pc = "idle" /\ find(buf) = 0)
    /\ Len(bytes_read) + Len(chunk) <= MaxBytes
    /\ bytes_read' = bytes_read \o chunk
    /\ IF find(chunk) > 0
         THEN /\ returned' = Append(returned, buf \o SubSeq(chunk, 1, find(chunk)))
              /\ buf' = buf \o SubSeq(chunk, find(chunk) + 1, Len(chunk))
              /\ rl_pc' = "idle"
         ELSE /\ buf' = buf \o chunk
              /\ rl_pc' = "loop"
              /\ UNCHANGED returned
    /\ UNCHANGED <<gps_data, covered, ignore, stopping, stop_timestamp,
                   DISABLE_IGNORE_STOP, shadow, last_eval, error_count, faults,
                   a_pc, ser>>
    /\ UNCHANGED pvars

(* Lines 76-89, one iteration of the while loop (entered when the check of *)
(* line 71 found no terminator): self.s.read returns a chunk, possibly     *)
(* empty after the port's timeout; with a terminator in the chunk the line *)
(* buf + data[:i+1] is returned and buf is replaced by data[i+1:], without *)
(* one the chunk is appended to buf and the loop goes on.                  *)
readline_read(chunk) ==
    /\ rl_pc = "loop" \/ (rl_pc = "idle" /\ find(buf) = 0)
    /\ Len(bytes_read) + Len(chunk) <= MaxBytes
    /\ bytes_read' = bytes_read \o chunk
    /\ IF find(chunk) > 0
         THEN /\ returned' = Append(returned, buf \o SubSeq(chunk, 1, find(chunk)))
              /\ buf' = SubSeq(chunk, find(chunk) + 1, Len(chunk))
              /\ rl_pc' = "idle"
         ELSE /\ buf' = buf \o chunk
              /\ rl_pc' = "loop"
              /\ UNCHANGED returned
    /\ UNCHANGED <<gps_data, covered, ignore, stopping, stop_timestamp,
                   DISABLE_IGNORE_STOP, shadow, last_eval, error_count, faults,
                   a_pc, ser>>
    /\ UNCHANGED pvars

(* Line 66: a new ReadLine has an empty buffer.                            *)
LInit ==
    /\ buf = <<>>
    /\ rl_pc = "idle"
    /\ bytes_read = <<>>
    /\ returned = <<>>

----------------------------------------------------------------------------
(* Initial states. The process starts with the module-level state of lines *)
(* 45-50; the current-day file either does not exist or holds the rows     *)
(* earlier runs of the day appended.                                       *)
PInit ==
    /\ is_network_available = "None"
    /\ upload_queue = <<>>
    /\ \E k \in 0..MaxPrior :
          /\ store = [j \in 1..k |-> j]
          /\ file_exists \in (IF k = 0 THEN BOOLEAN ELSE {TRUE})
    /\ produced = 0
    /\ h_pc = "top"
    /\ queue_size = 0
    /\ h_left = 0
    /\ lst = 0
    /\ data = 0
    /\ lists = <<>>
    /\ tasks = {}
    /\ r_pc = "init"
    /\ datas = None
    /\ r_idx = 0
    /\ r_lst = 0
    /\ last_call = NoCall
    /\ delivered = {}
    /\ restarts = 0
    /\ last_probe = "none"
    /\ submitted = <<>>

(* A run in which the first save is slow: handle_gps_loop is suspended in  *)
(* save_gps_data (line 408) for the first fix while get_gps_loop has       *)
(* already enqueued a backlog of BatchThreshold more. The current-day file *)
(* did not exist at start, so the replay has returned at line 295.         *)
PInitBacklog ==
    /\ is_network_available = "None"
    /\ upload_queue = [j \in 1..BatchThreshold |-> FixId(j + 1)]
    /\ produced = BatchThreshold + 1
    /\ store = <<>>
    /\ file_exists = FALSE
    /\ h_pc = "single_save"
    /\ queue_size = 1
    /\ h_left = 0
    /\ lst = 0
    /\ data = FixId(1)
    /\ lists = <<>>
    /\ tasks = {}
    /\ r_pc = "done"
    /\ datas = None
    /\ r_idx = 0
    /\ r_lst = 0
    /\ last_call = NoCall
    /\ delivered = {}
    /\ restarts = 0
    /\ last_probe = "none"
    /\ submitted = <<>>

(* get_gps_loop starts with the locals of lines 360-362 and its first call *)
(* of get_gps_data with the accumulator of line 209.                       *)
NoEval == [valid |-> FALSE, fix |-> EmptyData, pre_ignore |-> FALSE,
           pre_stopping |-> FALSE, pre_stop_timestamp |-> 0, put |-> FALSE]

AInit ==
    /\ gps_data = EmptyData
    /\ covered = {}
    /\ ignore = FALSE
    /\ stopping = FALSE
    /\ stop_timestamp = 0
    /\ DISABLE_IGNORE_STOP = FALSE
    /\ shadow = [ignore |-> FALSE, stopping |-> FALSE, stop_timestamp |-> 0]
    /\ last_eval = NoEval
    /\ error_count = 0
    /\ faults = 0
    /\ a_pc = "run"
    /\ ser = "open"
    /\ LInit

Init == PInit /\ AInit

(* One run of the whole pipeline: monitor, producer, drain loop (a backlog *)
(* of MaxFix stays under the batch threshold), uploads and the replay.     *)
Next ==
    \/ \E o \in ProbeOutcomes : check_network_task(o)
    \/ Put(MaxFix)
    \/ HandleCheck
    \/ SingleGet
    \/ SingleSave
    \/ \E t \in tasks : UploadAttempt(t)
    \/ \E t \in tasks, o \in Outcomes : UploadResponse(t, o)
    \/ ReplayOpen
    \/ ReplayRead
    \/ ReplayFill
    \/ ReplayResume

Spec == Init /\ [][Next]_vars

(* The drain loop under a backlog at the batch threshold.                  *)
InitBacklog == PInitBacklog /\ AInit

NextBacklog ==
    \/ \E o \in ProbeOutcomes : check_network_task(o)
    \/ Put(MaxBacklog)
    \/ HandleCheck
    \/ BatchGet
    \/ BatchSave
    \/ BatchDispatch
    \/ SingleGet
    \/ SingleSave
    \/ \E t \in tasks : UploadAttempt(t)
    \/ \E t \in tasks, o \in Outcomes : UploadResponse(t, o)

BatchSpec == InitBacklog /\ [][NextBacklog]_vars

(* The replay across restarts, with no fix acquired in between.            *)
NextRestart ==
    \/ \E o \in ProbeOutcomes : check_network_task(o)
    \/ \E t \in tasks : UploadAttempt(t)
    \/ \E t \in tasks, o \in Outcomes : UploadResponse(t, o)
    \/ ReplayOpen
    \/ ReplayRead
    \/ ReplayFill
    \/ ReplayResume
    \/ Restart

(* The current-day file at the start of the first run: as in PInit, or     *)
(* with one of its rows malformed (a torn or hand-edited line).            *)
PInitStored ==
    /\ is_network_available = "None"
    /\ upload_queue = <<>>
    /\ \E k \in 0..MaxPrior, bad \in 0..MaxPrior :
          /\ bad <= k
          /\ store = [j \in 1..k |-> IF j = bad THEN 0 ELSE j]
          /\ file_exists \in (IF k = 0 THEN BOOLEAN ELSE {TRUE})
    /\ produced = 0
    /\ h_pc = "top"
    /\ queue_size = 0
    /\ h_left = 0
    /\ lst = 0
    /\ data = 0
    /\ lists = <<>>
    /\ tasks = {}
    /\ r_pc = "init"
    /\ datas = None
    /\ r_idx = 0
    /\ r_lst = 0
    /\ last_call = NoCall
    /\ delivered = {}
    /\ restarts = 0
    /\ last_probe = "none"
    /\ submitted = <<>>

InitStored == PInitStored /\ AInit

RestartSpec == InitStored /\ [][NextRestart]_vars

(* The acquisition side alone: sentences, the filter and the queue it      *)
(* fills, with the flag DISABLE_IGNORE_STOP set or unset.                  *)
MaxEmit == 2

InitAcq ==
    /\ PInit
    /\ ~file_exists
    /\ gps_data = EmptyData
    /\ covered = {}
    /\ ignore = FALSE
    /\ stopping = FALSE
    /\ stop_timestamp = 0
    /\ DISABLE_IGNORE_STOP \in BOOLEAN
    /\ shadow = [ignore |-> FALSE, stopping |-> FALSE, stop_timestamp |-> 0]
    /\ last_eval = NoEval
    /\ error_count = 0
    /\ faults = 0
    /\ a_pc = "run"
    /\ ser = "open"
    /\ LInit

NextAcq ==
    \/ \E msg \in Sentences : Sentence(msg)
    \/ get_gps_loop(MaxEmit)

AcqSpec == InitAcq /\ [][NextAcq]_vars

(* The acquisition side with lines that do not decode and reads that fail, *)
(* up to the end of the process.                                           *)
MaxFaultEmit == 1

NextFault ==
    \/ \E msg \in Sentences : Sentence(msg)
    \/ get_gps_loop(MaxFaultEmit)
    \/ SentenceFault
    \/ ProcessExit

FaultSpec == InitAcq /\ [][NextFault]_vars

(* The line reassembler alone, fed every chunking of a byte stream.        *)
NextLine ==
    \/ readline_buffered
    \/ \E chunk \in Chunks : readline_read(chunk)

LineSpec == Init /\ [][NextLine]_vars

----------------------------------------------------------------------------
(* Properties                                                              *)

Last(q) == q[Len(q)]

(* A fix is pending in the running process while something still holds it  *)
(* for a later upload: the queue, the drain loop before its dispatch, or an *)
(* upload call in progress.                                                 *)
Pending(f) ==
    \/ f \in Range(upload_queue)
    \/ h_pc \in {"single_save", "batch_save"} /\ data = f
    \/ h_pc \in {"batch_get", "batch_save", "batch_dispatch"} /\ f \in Range(lists[lst])
    \/ \E t \in tasks : f \in Range(t.arg)

(* C1: an upload of a fix (single or batch) is dispatched by the drain     *)
(* loop only after save_gps_data appended the fix to the store, and every  *)
(* fix in a request of the drain loop is a row of the store.               *)
C1_DurabilityPrecedesDelivery ==
    \A t \in tasks : t.src = "live" =>
        /\ Range(t.arg) \subseteq Range(store)
        /\ Range(t.sent) \subseteq Range(store)

C1_Witness ==
    /\ \E t \in tasks : /\ t.src = "live" /\ t.kind = "list"
                        /\ Len(t.arg) >= BatchThreshold /\ t.phase = "waiting"
    /\ \E t \in tasks : /\ t.src = "live" /\ t.kind = "dict"
                        /\ t.phase = "waiting" /\ t.sent = t.arg

(* C2: the replay submits only rows whose delivery is not yet confirmed:   *)
(* no request of the replay carries a row the collector has already        *)
(* acknowledged with a 2xx.                                                *)
C2_ReplayOnlyUnsent ==
    \A t \in tasks : (t.src = "replay" /\ t.phase = "waiting") =>
        Range(t.sent) \cap delivered = {}

(* C3: a try of an upload call (live or replay) makes a request exactly    *)
(* when the value of is_network_available it read is True or None; when it *)
(* read False the call makes no request and returns without another try.   *)
C3_NetworkGating ==
    /\ \A t \in tasks :
          /\ t.phase = "waiting" => t.snap \in {"True", "None"} /\ t.requests = t.i + 1
          /\ t.phase = "ready" => t.requests = t.i
    /\ last_call.result = "skipped" => last_call.snap = "False"
    /\ last_call.result \in {"2xx", "non2xx", "exhausted"} =>
          last_call.snap \in {"True", "None"}

C3_Witness ==
    /\ last_call.result = "skipped"
    /\ \E t \in tasks : t.src = "replay" /\ t.phase = "waiting" /\ t.snap = "None"
    /\ is_network_available = "False"

(* C4: an upload skipped because is_network_available was False is         *)
(* deferred: when the call returns at the gate, its fix is still pending   *)
(* in the running process (so that it can be attempted once the network is *)
(* up).                                                                    *)
C4_SkippedStaysPending ==
    [][\A t \in tasks :
          (/\ t.src = "live" /\ t.phase = "ready"
           /\ NetworkGate(is_network_available)
           /\ t \notin tasks')
          => \A f \in Range(t.arg) : Pending(f)']_vars

(* C5: a drain of a backlog at or above the batch threshold issues one     *)
(* batch upload whose payload, as the transport receives it, holds all the *)
(* dequeued fixes in queue order.                                          *)
C5_BatchPayload ==
    \A t \in tasks : (t.src = "live" /\ t.kind = "list" /\ t.phase = "waiting") =>
        /\ t.sent = t.arg
        /\ Len(t.sent) >= BatchThreshold

(* C6: every failed try (transport fault or non-2xx response) is followed  *)
(* by another try until one succeeds or 3 tries were made; a call never    *)
(* makes more than 3 requests and none after a 2xx.                        *)
C6_RetryPolicy ==
    /\ \A t \in tasks : t.requests <= times
    /\ last_call.requests <= times
    /\ last_call.result \in {"non2xx", "exhausted"} => last_call.requests = times

(* C7: whatever the state of the filter, a fix at or above the stop speed  *)
(* is put on the queue and leaves the filter moving with ignore cleared;   *)
(* while the fixes stay below the stop speed the suppression goes on.      *)
C7_MotionResume ==
    last_eval.valid =>
        /\ last_eval.fix["speed"][1] >= TRIGGER_STOP_SPEED =>
              /\ last_eval.put
              /\ Last(upload_queue) = last_eval.fix
              /\ ~stopping /\ ~ignore
        /\ (last_eval.fix["speed"][1] < TRIGGER_STOP_SPEED /\ last_eval.pre_ignore) =>
              /\ ignore
              /\ ~DISABLE_IGNORE_STOP => ~last_eval.put

C7_Witness ==
    /\ last_eval.valid /\ last_eval.pre_ignore /\ last_eval.pre_stopping
    /\ ~DISABLE_IGNORE_STOP
    /\ last_eval.fix["speed"][1] >= TRIGGER_STOP_SPEED
    /\ last_eval.put /\ ~ignore /\ ~stopping

(* C8: with DISABLE_IGNORE_STOP set every fix get_gps_data returns is put  *)
(* on the queue, and the locals of the filter are what they would be in    *)
(* the same run with the flag unset.                                       *)
C8_ForceDeliver ==
    /\ (DISABLE_IGNORE_STOP /\ last_eval.valid) =>
          /\ last_eval.put
          /\ Last(upload_queue) = last_eval.fix
    /\ FilterState = shadow

C8_Witness ==
    /\ DISABLE_IGNORE_STOP /\ last_eval.valid
    /\ ignore /\ stopping
    /\ last_eval.fix["speed"][1] < TRIGGER_STOP_SPEED
    /\ last_eval.put
    /\ shadow.ignore

(* C9: as soon as the sentences of one call of get_gps_data have carried   *)
(* all five fields, the call returns a fix (the accumulator is complete).  *)
C9_AggregatorUnion ==
    covered = Fields => \A k \in Fields : gps_data[k] # NoneV

(* C10: every fix get_gps_data returns, hence every fix the filter sees    *)
(* and every fix on the queue, has its five fields populated.              *)
C10_FixComplete ==
    /\ \A n \in 1..Len(upload_queue) : \A k \in Fields : upload_queue[n][k] # NoneV
    /\ last_eval.valid => \A k \in Fields : last_eval.fix[k] # NoneV

C10_Witness ==
    /\ upload_queue # <<>>
    /\ last_eval.valid /\ ~last_eval.put
    /\ gps_data # EmptyData
    /\ \E k \in Fields : gps_data[k] = NoneV

(* C11: the error counter counts every fault of the aggregation loop and   *)
(* is never reset; the loop goes on while the counter is at most           *)
(* max_error_count, and the fault that takes it above max_error_count      *)
(* leaves the loop as an exception, whatever was decoded or emitted        *)
(* between the faults.                                                     *)
C11_ErrorEscalation ==
    /\ error_count = faults
    /\ (a_pc = "run") = (faults <= max_error_count)
    /\ a_pc # "run" => faults = max_error_count + 1

C11_Witness ==
    /\ a_pc = "raised"
    /\ faults = max_error_count + 1
    /\ produced >= 1
    /\ gps_data # EmptyData

(* C12: when the process has ended after the receiver was opened, the      *)
(* serial port has been closed, on the path of the fatal error too.        *)
C12_SerialReleased == a_pc = "ended" => ser = "closed"

(* The fixes get_gps_loop has enqueued in this run, in order; the rows of  *)
(* the file this run has appended; the fix the drain loop has taken from   *)
(* the queue and not yet appended.                                         *)
Enqueued == [i \in 1..produced |-> FixId(i)]
IsLive(row) == row > MaxPrior
LiveRows == SelectSeq(store, IsLive)
InHand == IF h_pc \in {"single_save", "batch_save"} THEN <<data>> ELSE <<>>

(* C13: at every point of a run the rows the drain loop has appended are a *)
(* prefix of the enqueued fixes, in the same order, and every enqueued fix *)
(* is exactly once in the file, in the hand of the drain loop or in the    *)
(* queue: none is dropped, none written twice, whether put interleaves     *)
(* with the single path or with a batch drain.                             *)
C13_StoreOrder ==
    /\ LiveRows = SubSeq(Enqueued, 1, Len(LiveRows))
    /\ LiveRows \o InHand \o upload_queue = Enqueued

C13_Witness ==
    /\ h_pc = "batch_save"
    /\ queue_size = BatchThreshold
    /\ produced = BatchThreshold + 2
    /\ Len(LiveRows) >= 3
    /\ Last(upload_queue) = FixId(produced)

(* C14: the network state is unknown (None) until a probe has completed;   *)
(* after a probe it is up (True) exactly when that probe received a 2xx    *)
(* response, and down (False) for a timeout, a refused connection or a     *)
(* response that is not 2xx.                                               *)
C14_MonitorState ==
    /\ last_probe = "none" => is_network_available = "None"
    /\ last_probe = "2xx" => is_network_available = "True"
    /\ last_probe \in {"non2xx", "fault"} => is_network_available = "False"

(* C15: a malformed row of the current-day file does not abort the replay: *)
(* the replay skips it and submits every well-formed row before and after  *)
(* it.                                                                     *)
C15_MalformedSkipped ==
    /\ r_pc # "failed"
    /\ r_pc = "done" /\ file_exists => submitted = SelectSeq(store, WellFormed)

C17_SuppressionBoundary ==
    (last_eval.valid /\ last_eval.fix["speed"][1] < TRIGGER_STOP_SPEED) =>
        LET ts == last_eval.fix["GPSTimestamp"][1]
            t0 == last_eval.pre_stop_timestamp
        IN /\ stopping
           /\ IF ~last_eval.pre_stopping
                THEN /\ stop_timestamp = ts
                     /\ ~ignore
                ELSE /\ stop_timestamp = t0
                     /\ ignore = (last_eval.pre_ignore \/ ts - t0 > TRIGGER_STOP_TIME)
           /\ last_eval.put = (~ignore \/ DISABLE_IGNORE_STOP)

C17_Witness ==
    /\ last_eval.valid
    /\ ~DISABLE_IGNORE_STOP
    /\ last_eval.pre_stopping
    /\ last_eval.fix["speed"][1] < TRIGGER_STOP_SPEED
    /\ last_eval.fix["GPSTimestamp"][1] - stop_timestamp = TRIGGER_STOP_TIME
    /\ last_eval.put
    /\ produced = 2

RECURSIVE Flatten(_)
Flatten(ls) == IF ls = <<>> THEN <<>> ELSE Head(ls) \o Flatten(Tail(ls))

(* C18: whatever the chunking of the byte stream (empty reads and chunks   *)
(* with several terminators included), every line readline has returned    *)
(* ends with a newline and has no other newline, and the returned lines    *)
(* followed by the retained buffer are exactly the bytes read so far: no   *)
(* byte is lost, duplicated or reordered and the buffer holds no byte of a *)
(* returned line.                                                          *)
C18_LineReassembly ==
    /\ \A k \in 1..Len(returned) : find(returned[k]) = Len(returned[k])
    /\ Flatten(returned) \o buf = bytes_read

C18_Witness ==
    /\ Len(returned) >= 2
    /\ Len(returned[1]) >= 2
    /\ find(buf) > 0
    /\ Len(bytes_read) = MaxBytes

(* The drain loop and the producer can take their next step whenever their *)
(* own position and the queue allow it, whatever the uploads are doing.    *)
NoStall ==
    /\ h_pc = "top" => ENABLED HandleCheck
    /\ h_pc = "single_get" /\ upload_queue # <<>> => ENABLED SingleGet
    /\ h_pc = "single_save" => ENABLED SingleSave
    /\ h_pc = "batch_get" /\ upload_queue # <<>> => ENABLED BatchGet
    /\ h_pc = "batch_save" => ENABLED BatchSave
    /\ h_pc = "batch_dispatch" => ENABLED BatchDispatch
    /\ produced < MaxBacklog => ENABLED Put(MaxBacklog)

(* A step of an upload call (a try, a response, the abandonment after the  *)
(* last try) changes nothing of the drain loop, the producer, the file or  *)
(* the process; the fix of every call in progress is a row of the file and *)
(* rows are never removed.                                                 *)
SoftFail ==
    /\ \A t \in tasks : Range(t.arg) \subseteq Range(store')
    /\ store = SubSeq(store', 1, Len(store))
    /\ tasks \ tasks' # {} =>
          UNCHANGED <<h_pc, upload_queue, produced, store, data, queue_size,
                      h_left, lst, r_pc, a_pc>>

(* C19: an upload that fails on every try is abandoned without raising; no *)
(* outcome of an upload ends or blocks the drain loop or the acquisition   *)
(* loop, which go on to persist and dispatch the following fixes, and the  *)
(* fix of an abandoned upload stays a row of the file.                     *)
C19_UploadSoftFail == []NoStall /\ [][SoftFail]_vars

C19_Witness ==
    /\ last_call.result = "exhausted"
    /\ Len(store) = MaxBacklog
    /\ tasks = {[NewTask("live", "dict", <<FixId(MaxBacklog)>>, 0)
                    EXCEPT !.phase = "waiting", !.requests = 1,
                           !.sent = <<FixId(MaxBacklog)>>,
                           !.snap = is_network_available]}

(* C20: this run's replay submits only rows that were in the file before   *)
(* the process started, never a row the live pipeline has appended during  *)
(* this run, however the replay task interleaves with the live pipeline.   *)
C20_ReplayOnlyPrior == \A i \in 1..Len(submitted) : ~IsLive(submitted[i])

====
